---- MODULE Spec2Model ----
(***************************************************************************)
(* A model of lib/streamlit/errors.py: the exception lattice, the          *)
(* localized message formatter (LocalizableStreamlitException.__init__)    *)
(* and the leaf constructors that feed it.                                 *)
(*                                                                         *)
(* Python strings are modelled as canonical sequences of symbols.  A       *)
(* symbol is one of the characters the code gives a meaning to ("{" and    *)
(* "}" for str.format, "/" for os.path.basename, the line break that       *)
(* separates the lines of a message, the backquote of a Markdown code      *)
(* span) or a maximal run of other                                         *)
(* characters, kept as one TLA+ string.  Two Python strings are equal iff  *)
(* their canonical sequences are equal; the empty string is << >>.         *)
(* Runs that occur between "{" and "}" in the inputs are plain identifiers *)
(* or one decimal digit (no ".", "[", ":" or "!").                         *)
(***************************************************************************)
EXTENDS Naturals, Sequences, FiniteSets, TLC

VARIABLES catalog, exc, last, passed, caughtBy, kept, seen

vars == <<catalog, exc, last, passed, caughtBy, kept, seen>>

(***************************************************************************)
(* Strings                                                                 *)
(***************************************************************************)
NL == "\n"

\* The backquote, which a TLA+ string cannot hold, has a symbol of its own.
BT == "&#96;"

Specials == {"{", "}", "/", NL, BT}

RECURSIVE NormFrom(_, _, _)
NormFrom(s, i, acc) ==
    IF i > Len(s) THEN acc
    ELSE IF s[i] = "" THEN NormFrom(s, i + 1, acc)
    ELSE IF /\ Len(acc) > 0
            /\ acc[Len(acc)] \notin Specials
            /\ s[i] \notin Specials
         THEN NormFrom(s, i + 1,
                       [acc EXCEPT ![Len(acc)] = acc[Len(acc)] \o s[i]])
    ELSE NormFrom(s, i + 1, Append(acc, s[i]))

\* The canonical form of a sequence of symbols: string concatenation.
Norm(s) == NormFrom(s, 1, << >>)

(***************************************************************************)
(* Values: the objects passed to the constructors.  Floats are the         *)
(* integral floats n.0.                                                    *)
(***************************************************************************)
None == [kind |-> "NoneType", n |-> 0, s |-> << >>]
Int(k) == [kind |-> "int", n |-> k, s |-> << >>]
Float(k) == [kind |-> "float", n |-> k, s |-> << >>]
Str(t) == [kind |-> "str", n |-> 0, s |-> t]

\* bool(v)
Truthy(v) ==
    CASE v.kind = "NoneType" -> FALSE
      [] v.kind = "int" -> v.n # 0
      [] v.kind = "float" -> v.n # 0
      [] OTHER -> v.s # << >>

\* type(v).__name__
TypeName(v) == v.kind

\* format(v, ""), which is str(v) for these types
ToStr(v) ==
    CASE v.kind = "NoneType" -> <<"None">>
      [] v.kind = "int" -> <<ToString(v.n)>>
      [] v.kind = "float" -> <<ToString(v.n) \o ".0">>
      [] OTHER -> v.s

\* Keyword arguments: a set of [k, v] pairs with distinct keys.
HasKey(kw, k) == \E p \in kw : p.k = k
Lookup(kw, k) == (CHOOSE p \in kw : p.k = k).v

(***************************************************************************)
(* str.format with keyword arguments only (no positional arguments)        *)
(***************************************************************************)
\* A field name that is a decimal number indexes the positional arguments.
IsIndex(f) == Len(f) = 1 /\ \E d \in 0..9 : f[1] = ToString(d)

Failed(e) == [outcome |-> e, out |-> << >>]

\* The first brace at or after position i, or 0.
RECURSIVE NextBrace(_, _)
NextBrace(t, i) ==
    IF i > Len(t) THEN 0
    ELSE IF t[i] \in {"{", "}"} THEN i
    ELSE NextBrace(t, i + 1)

\* The bug of a missing key standing for nothing.
FieldValueLenient(f, kw) ==
    IF f = << >> \/ IsIndex(f) THEN Failed("IndexError")
    ELSE IF Len(f) = 1 /\ HasKey(kw, f[1])
         THEN [outcome |-> "ok", out |-> ToStr(Lookup(kw, f[1]))]
    ELSE [outcome |-> "ok", out |-> << >>]

\* The value a replacement field stands for.
FieldValue(f, kw) ==
    IF f = << >> \/ IsIndex(f) THEN Failed("IndexError")
    ELSE IF Len(f) = 1 /\ HasKey(kw, f[1])
         THEN [outcome |-> "ok", out |-> ToStr(Lookup(kw, f[1]))]
    ELSE Failed("KeyError")

RECURSIVE FormatFrom(_, _, _, _)
FormatFrom(t, i, kw, acc) ==
    IF i > Len(t) THEN [outcome |-> "ok", out |-> Norm(acc)]
    ELSE IF t[i] = "{" THEN
        IF i = Len(t) THEN Failed("ValueError")
        ELSE IF t[i + 1] = "{" THEN FormatFrom(t, i + 2, kw, Append(acc, "{"))
        ELSE LET j == NextBrace(t, i + 1) IN
             IF j = 0 \/ t[j] = "{" THEN Failed("ValueError")
             ELSE LET r == FieldValue(SubSeq(t, i + 1, j - 1), kw) IN
                  IF r.outcome # "ok" THEN r
                  ELSE FormatFrom(t, j + 1, kw, acc \o r.out)
    ELSE IF t[i] = "}" THEN
        IF i < Len(t) /\ t[i + 1] = "}"
        THEN FormatFrom(t, i + 2, kw, Append(acc, "}"))
        ELSE Failed("ValueError")
    ELSE FormatFrom(t, i + 1, kw, Append(acc, t[i]))

format(t, kw) == FormatFrom(t, 1, kw, << >>)

\* os.path.basename(p): what follows the last "/"
RECURSIVE LastSlash(_, _)
LastSlash(p, i) ==
    IF i = 0 THEN 0 ELSE IF p[i] = "/" THEN i ELSE LastSlash(p, i - 1)

basename(p) == SubSeq(p, LastSlash(p, Len(p)) + 1, Len(p))

(***************************************************************************)
(* The localization catalog and LocalizableStreamlitException.__init__     *)
(***************************************************************************)
\* gettext.gettext(message): the catalog's entry, or the message id itself.
gettext(cat, message) ==
    IF \E e \in cat : e.msgid = message
    THEN (CHOOSE e \in cat : e.msgid = message).msgstr
    ELSE message

\* type(self).__name__ as a string
NameOf(cls) == <<cls>>

\* The bug of looking the template up under the base class's name.
ChosenTemplateByBaseName(cls, message, cat) ==
    LET exception_name == NameOf("LocalizableStreamlitException")
        exception_message == gettext(cat, exception_name)
    IN IF exception_message = exception_name THEN message
       ELSE exception_message

\* The template the constructor formats.
ChosenTemplate(cls, message, cat) ==
    LET exception_name == NameOf(cls)
        exception_message == gettext(cat, exception_name)
    IN IF exception_message = exception_name THEN message
       ELSE exception_message

\* The bug of recording the keyword arguments on the fallback path only.
LocalizableStreamlitExceptionFallbackOnly(cls, message, kwargs, cat) ==
    LET t == ChosenTemplate(cls, message, cat)
        r == format(t, kwargs)
    IN [outcome |-> r.outcome,
        message |-> r.out,
        exec_kwargs |-> IF r.outcome = "ok" /\ t = message THEN kwargs ELSE {},
        catalog |-> cat]

\* The bug of memoising the resolved template in the catalog.
LocalizableStreamlitExceptionCaching(cls, message, kwargs, cat) ==
    LET t == ChosenTemplate(cls, message, cat)
        r == format(t, kwargs)
    IN [outcome |-> r.outcome,
        message |-> r.out,
        exec_kwargs |-> IF r.outcome = "ok" THEN kwargs ELSE {},
        catalog |-> IF \E e \in cat : e.msgid = NameOf(cls) THEN cat
                    ELSE cat \cup {[msgid |-> NameOf(cls), msgstr |-> t]}]

\* The constructor's effect: the outcome, the message handed to
\* Exception.__init__, the recorded _exec_kwargs and the catalog it leaves.
LocalizableStreamlitException(cls, message, kwargs, cat) ==
    LET r == format(ChosenTemplate(cls, message, cat), kwargs)
    IN [outcome |-> r.outcome,
        message |-> r.out,
        exec_kwargs |-> IF r.outcome = "ok" THEN kwargs ELSE {},
        catalog |-> cat]

\* The exec_kwargs property
exec_kwargs(e) == e.exec_kwargs

\* The bug of resolving the message when it is read.
MessageOfLazy(e, cat) ==
    format(ChosenTemplate(e.cls, e.born.message, cat), e.born.kwargs).out

\* str(e): the message stored at construction
MessageOf(e, cat) == e.message

(***************************************************************************)
(* The leaf constructors: what each passes to super().__init__             *)
(***************************************************************************)
Call(message, kwargs) == [message |-> Norm(message), kwargs |-> kwargs]

TypeLine(name, v) ==
    IF Truthy(v)
    THEN <<NL, BT, name, BT, " has " \o TypeName(v) \o " type.">>
    ELSE << >>

StreamlitNumberInputDifferentTypesError(value, min_value, max_value, step) ==
    Call(<<"All numerical arguments must be of the same type.">>
           \o TypeLine("value", value)
           \o TypeLine("min_value", min_value)
           \o TypeLine("max_value", max_value)
           \o TypeLine("step", step),
         {})

StreamlitNumberInputInvalidMinValueError(value, max_value) ==
    Call(<<"The ", BT, "value", BT, " ", "{", "value", "}",
             " is greater than the ", BT, "max_value", BT, " ", "{",
             "max_value", "}", ".">>,
         {[k |-> "value", v |-> value], [k |-> "max_value", v |-> max_value]})

\* The bug of reporting the other bound.
StreamlitNumberInputInvalidMaxValueErrorOtherBound(value, min_value, max_value) ==
    Call(<<"The ", BT, "value", BT, " ", "{", "value", "}",
           " is less than the ", BT, "min_value", BT, " ", "{", "min_value",
           "}", ".">>,
         {[k |-> "value", v |-> value], [k |-> "min_value", v |-> max_value]})

StreamlitNumberInputInvalidMaxValueError(value, min_value, max_value) ==
    Call(<<"The ", BT, "value", BT, " ", "{", "value", "}",
             " is less than the ", BT, "min_value", BT, " ", "{", "min_value",
             "}", ".">>,
         {[k |-> "value", v |-> value], [k |-> "min_value", v |-> min_value]})

StreamlitJSNumberBoundsError(message) ==
    Call(message.s,
         {})

StreamlitNumberInputInvalidFormatError(fmt) ==
    Call(<<"Format string for st.number_input contains invalid characters: ">>
           \o ToStr(fmt),
         {})

StreamlitMissingPageLabelError ==
    Call(<<"The ", BT, "label", BT,
             " param is required for external links used with ", BT,
             "st.page_link", BT, " - please provide a ", BT, "label", BT, ".">>,
         {})

StreamlitPageNotFoundError(page, main_script_directory) ==
    Call(<<"Could not find page: ", BT>>
           \o ToStr(page)
           \o <<BT,
             ". You must provide a file path relative to the entrypoint file (from the directory ",
             BT>>
           \o basename(main_script_directory.s)
           \o <<BT, "). Only the entrypoint file and files in the ", BT, "pages",
             "/", BT, " directory are supported.">>,
         {})

StreamlitPageNotFoundMPAV2Error(page) ==
    Call(<<"Could not find page: ", BT>>
           \o ToStr(page)
           \o <<BT, ". You must provide a ", BT, "StreamlitPage", BT,
             " object or file path relative to the entrypoint file. Only pages previously defined by [st.Page](http:",
             "/", "/", "st.page", "/", ") and passed to ", BT, "st.navigation",
             BT, " are allowed.">>,
         {})

StreamlitFragmentWidgetsNotAllowedOutsideError ==
    Call(<<" Fragments cannot write widgets to outside containers.">>,
         {})

StreamlitInvalidFormCallbackError ==
    Call(<<"Within a form, callbacks can only be defined on st.form_submit_button. Defining callbacks on other widgets inside a form is not allowed.">>,
         {})

StreamlitWidgetValueAssignmentNotAllowedError(key) ==
    Call(<<"Values for the widget with ", BT, "key", BT, " '">>
           \o ToStr(key)
           \o <<"' cannot be set using ", BT, "st.session_state", BT, ".">>,
         {})

StreamlitSelectionCountExceedsMaxError(current_selections_count, max_selections_count) ==
    LET curr_selections_noun ==
            IF current_selections_count = Int(1) THEN <<"selection">>
            ELSE <<"selections">>
        options_noun ==
            IF max_selections_count = Int(1) THEN <<"option">>
            ELSE <<"options">>
    IN
    Call(<<"Multiselect has ">>
           \o ToStr(current_selections_count)
           \o <<" ">>
           \o curr_selections_noun
           \o <<" selected but ", BT, "max_selections", BT, " is set to ">>
           \o ToStr(max_selections_count)
           \o <<". This happened because you either gave too many options to ", BT,
             "default", BT, " or you manipulated the widget's state through ",
             BT, "st.session_state", BT,
             ". Note that the latter can happen before the line indicated in the traceback. Please select at most ">>
           \o ToStr(max_selections_count)
           \o <<" ">>
           \o options_noun
           \o <<".">>,
         {})

StreamlitInvalidColumnSpecError ==
    Call(<<"The spec argument to ", BT, "st.columns", BT,
             " must be either a positive integer (number of columns) or a list of positive numbers (width ratios of the columns). See [documentation](https:",
             "/", "/", "docs.streamlit.io", "/", "develop", "/",
             "api-reference", "/", "layout", "/",
             "st.columns) for more information.">>,
         {})

StreamlitSetPageConfigMustBeFirstCommandError ==
    Call(<<BT, "set_page_config()", BT,
             " can only be called once per app page, and must be called as the first Streamlit command in your script.",
             NL, NL, "For more information refer to the [docs](https:", "/",
             "/", "docs.streamlit.io", "/", "develop", "/", "api-reference",
             "/", "configuration", "/", "st.set_page_config).">>,
         {})

StreamlitInvalidLayoutError(layout) ==
    Call(<<"layout must be \"centered\" or \"wide\" (got \"">>
           \o ToStr(layout)
           \o <<"\")">>,
         {})

StreamlitInvalidSidebarStateError(initial_sidebar_state) ==
    Call(<<"initial_sidebar_state must be \"auto\" or \"expanded\" or \"collapsed\" (got \"">>
           \o ToStr(initial_sidebar_state)
           \o <<"\")">>,
         {})

StreamlitInvalidMenuItemKeyError(key) ==
    Call(<<"We only accept the keys: \"Get help\", \"Report a bug\", and \"About\" (\"">>
           \o ToStr(key)
           \o <<"\" is not a valid key.)">>,
         {})

StreamlitInvalidURLError(url) ==
    Call(<<"\"">>
           \o ToStr(url)
           \o <<"\" is a not a valid URL. You must use a fully qualified domain beginning with ",
             BT, "http:", "/", "/", BT, ", ", BT, "https:", "/", "/", BT,
             ", or ", BT, "mailto:", BT, ".">>,
         {})

(***************************************************************************)
(* The exception lattice: each class and the bases its class statement     *)
(* names.  The built-in classes are given with their built-in bases.       *)
(***************************************************************************)
LocalizableLeaves ==
    {"StreamlitNumberInputDifferentTypesError",
     "StreamlitNumberInputInvalidMinValueError",
     "StreamlitNumberInputInvalidMaxValueError",
     "StreamlitJSNumberBoundsError",
     "StreamlitNumberInputInvalidFormatError",
     "StreamlitMissingPageLabelError",
     "StreamlitPageNotFoundError",
     "StreamlitPageNotFoundMPAV2Error",
     "StreamlitFragmentWidgetsNotAllowedOutsideError",
     "StreamlitInvalidFormCallbackError",
     "StreamlitWidgetValueAssignmentNotAllowedError",
     "StreamlitSelectionCountExceedsMaxError",
     "StreamlitInvalidColumnSpecError",
     "StreamlitSetPageConfigMustBeFirstCommandError",
     "StreamlitInvalidLayoutError",
     "StreamlitInvalidSidebarStateError",
     "StreamlitInvalidMenuItemKeyError",
     "StreamlitInvalidURLError"}

LocalizableClasses == LocalizableLeaves \cup {"LocalizableStreamlitException"}

\* The classes that take no constructor argument of their own.
PlainClasses ==
    {"Error", "CustomComponentError", "DeprecationError",
     "FragmentStorageKeyError", "FragmentHandledException", "NoStaticFiles",
     "NoSessionContext", "MarkdownFormattedException",
     "StreamlitAPIException", "DuplicateWidgetID",
     "UnserializableSessionStateError", "StreamlitAPIWarning"}

BuiltinClasses ==
    {"BaseException", "Exception", "LookupError", "KeyError", "IndexError",
     "ValueError", "Warning"}

Classes ==
    LocalizableClasses \cup PlainClasses \cup BuiltinClasses
      \cup {"UncaughtAppException", "StreamlitModuleNotFoundError"}

\* The bug of a flat lattice: every class directly under Error.
BasesFlat(c) ==
    IF c = "BaseException" THEN {}
    ELSE IF c = "Exception" THEN {"BaseException"}
    ELSE IF c \in BuiltinClasses \cup {"Error", "FragmentHandledException"}
         THEN {"Exception"}
    ELSE {"Error"}

Bases(c) ==
    CASE c = "BaseException" -> {}
      [] c = "Exception" -> {"BaseException"}
      [] c = "LookupError" -> {"Exception"}
      [] c = "KeyError" -> {"LookupError"}
      [] c = "IndexError" -> {"LookupError"}
      [] c = "ValueError" -> {"Exception"}
      [] c = "Warning" -> {"Exception"}
      [] c = "Error" -> {"Exception"}
      [] c = "CustomComponentError" -> {"Error"}
      [] c = "DeprecationError" -> {"Error"}
      [] c = "FragmentStorageKeyError" -> {"Error", "KeyError"}
      [] c = "FragmentHandledException" -> {"Exception"}
      [] c = "NoStaticFiles" -> {"Error"}
      [] c = "NoSessionContext" -> {"Error"}
      [] c = "MarkdownFormattedException" -> {"Error"}
      [] c = "UncaughtAppException" -> {"Error"}
      [] c = "StreamlitAPIException" -> {"MarkdownFormattedException"}
      [] c = "DuplicateWidgetID" -> {"StreamlitAPIException"}
      [] c = "UnserializableSessionStateError" -> {"StreamlitAPIException"}
      [] c = "StreamlitAPIWarning" -> {"StreamlitAPIException", "Warning"}
      [] c = "StreamlitModuleNotFoundError" -> {"StreamlitAPIWarning"}
      [] c = "LocalizableStreamlitException" -> {"StreamlitAPIException"}
      [] c \in LocalizableLeaves -> {"LocalizableStreamlitException"}

\* The classes of c's method resolution order.
RECURSIVE Mro(_)
Mro(c) == {c} \cup UNION {Mro(b) : b \in Bases(c)}

\* Whether "except h" catches an instance of class c: isinstance.
Catches(h, c) == h \in Mro(c)

(***************************************************************************)
(* The inputs                                                              *)
(***************************************************************************)
\* At most this many names have an entry in the catalog.
MaxCatalogEntries == 1

\* The names the catalog may translate.
CatalogNames ==
    {"LocalizableStreamlitException",
     "StreamlitNumberInputInvalidMaxValueError",
     "StreamlitJSNumberBoundsError",
     "StreamlitInvalidLayoutError"}

\* What the catalog may hold for a name: a text, templates with
\* placeholders, the name itself.
Translations(name) ==
    {<<"Traduction.">>,
     <<"{", "value", "}", " < ", "{", "min_value", "}">>,
     <<"Valeur ", "{", "value", "}", ".">>,
     NameOf(name)}

CatalogEntries ==
    UNION {{[msgid |-> NameOf(n), msgstr |-> t] : t \in Translations(n)}
             : n \in CatalogNames}

WellFormedCatalog(cat) ==
    /\ Cardinality(cat) <= MaxCatalogEntries
    /\ \A e1, e2 \in cat : e1.msgid = e2.msgid => e1 = e2

Catalogs == {cat \in SUBSET CatalogEntries : WellFormedCatalog(cat)}

\* Numbers for st.number_input's type check.
TypeArgs == {None, Int(0), Int(5), Float(1)}

\* Numbers for st.number_input's bounds.
BoundArgs == {Int(1), Int(5), Int(10), Float(5)}

\* Selection counts.
CountArgs == {Int(0), Int(1), Int(2)}

\* Caller-supplied strings.
StrArgs ==
    {Str(<< >>), Str(<<"x">>), Str(<<"{">>), Str(<<"}">>),
     Str(<<"{", "{">>), Str(<<"{", "x", "}">>), Str(<<"{", "}">>),
     Str(<<"{", "0", "}">>), Str(<<"a", "/", "b">>)}

\* Script directories.
DirArgs ==
    {Str(<< >>), Str(<<"app">>), Str(<<"/", "srv", "/", "app">>),
     Str(<<"/", "srv", "/">>), Str(<<"/", "srv", "/", "{", "app", "}">>)}

\* Templates and keyword arguments given to the base constructor directly.
Templates ==
    {<< >>, <<"Plain text.">>, <<"{", "value", "}">>,
     <<"Got ", "{", "value", "}", " and ", "{", "other", "}", ".">>,
     <<"{", "{", "value", "}", "}">>, <<"Open ", "{">>}

KwArgs ==
    {{}, {[k |-> "value", v |-> Int(0)]},
     {[k |-> "value", v |-> Str(<< >>)]},
     {[k |-> "value", v |-> Int(1)], [k |-> "min_value", v |-> Int(5)]}}

WidePools ==
    [types |-> TypeArgs, bounds |-> BoundArgs, counts |-> CountArgs,
     strs |-> StrArgs, dirs |-> DirArgs,
     classes |-> {"LocalizableStreamlitException"},
     templates |-> Templates, kwargs |-> KwArgs]

(***************************************************************************)
(* The state                                                               *)
(*   catalog   the process-wide localization catalog                       *)
(*   exc       the exception instance in flight, or NoExc                  *)
(*   last      the most recent constructor call and how it ended           *)
(*   passed    the handler class the instance last propagated through      *)
(*   caughtBy  the handler class that caught it                            *)
(*   kept      the instances a caller still holds                          *)
(*   seen      what the last read of a held instance returned              *)
(***************************************************************************)
NoCall ==
    [cls |-> "", args |-> << >>, message |-> << >>, kwargs |-> {},
     outcome |-> "none", cat0 |-> {}]

NoExc == [cls |-> "", message |-> << >>, exec_kwargs |-> {}, born |-> NoCall]

NoRead == [of |-> 0, message |-> << >>, exec_kwargs |-> {}, at |-> {}]

\* The built-in error str.format raises: it is in flight in place of the
\* instance whose construction it aborted.  Its own text is not modelled.
Builtin(e) == [cls |-> e, message |-> << >>, exec_kwargs |-> {}, born |-> NoCall]

InitWith(cats) ==
    /\ catalog \in cats
    /\ exc = NoExc
    /\ last = NoCall
    /\ passed = ""
    /\ caughtBy = ""
    /\ kept = << >>
    /\ seen = NoRead

Init == InitWith(Catalogs)

\* A constructor of class cls called with args, which calls
\* LocalizableStreamlitException.__init__(call.message, call.kwargs).
Construct(cls, args, call) ==
    /\ exc = NoExc
    /\ LET r == LocalizableStreamlitException(cls, call.message, call.kwargs,
                                              catalog)
           c == [cls |-> cls, args |-> args, message |-> call.message,
                 kwargs |-> call.kwargs, outcome |-> r.outcome,
                 cat0 |-> catalog]
       IN /\ catalog' = r.catalog
          /\ last' = c
          /\ exc' = IF r.outcome = "ok"
                    THEN [cls |-> cls, message |-> r.message,
                          exec_kwargs |-> r.exec_kwargs, born |-> c]
                    ELSE Builtin(r.outcome)
    /\ UNCHANGED <<passed, caughtBy, kept, seen>>

(***************************************************************************)
(* The operations: one per constructor, with its arguments drawn from the  *)
(* pools P                                                                 *)
(***************************************************************************)
\* A direct call of the base constructor: every subclass in the file has a
\* constructor of its own, so the class is the base class itself.
RaiseLocalizable(P) ==
    \E cls \in P.classes, message \in P.templates, kwargs \in P.kwargs :
        Construct(cls, << >>, [message |-> message, kwargs |-> kwargs])

RaiseNumberInputDifferentTypes(P) ==
    \E value \in P.types,
       min_value \in P.types,
       max_value \in P.types,
       step \in P.types :
        Construct("StreamlitNumberInputDifferentTypesError", <<value, min_value, max_value, step>>,
                  StreamlitNumberInputDifferentTypesError(value, min_value, max_value, step))

RaiseNumberInputInvalidMinValue(P) ==
    \E value \in P.bounds, max_value \in P.bounds :
        Construct("StreamlitNumberInputInvalidMinValueError", <<value, max_value>>,
                  StreamlitNumberInputInvalidMinValueError(value, max_value))

RaiseNumberInputInvalidMaxValue(P) ==
    \E value \in P.bounds, min_value \in P.bounds, max_value \in P.bounds :
        Construct("StreamlitNumberInputInvalidMaxValueError", <<value, min_value, max_value>>,
                  StreamlitNumberInputInvalidMaxValueError(value, min_value, max_value))

RaiseJSNumberBounds(P) ==
    \E message \in P.strs :
        Construct("StreamlitJSNumberBoundsError", <<message>>,
                  StreamlitJSNumberBoundsError(message))

RaiseNumberInputInvalidFormat(P) ==
    \E fmt \in P.strs :
        Construct("StreamlitNumberInputInvalidFormatError", <<fmt>>,
                  StreamlitNumberInputInvalidFormatError(fmt))

RaiseMissingPageLabel ==
    Construct("StreamlitMissingPageLabelError", << >>,
              StreamlitMissingPageLabelError)

RaisePageNotFound(P) ==
    \E page \in P.strs, main_script_directory \in P.dirs :
        Construct("StreamlitPageNotFoundError", <<page, main_script_directory>>,
                  StreamlitPageNotFoundError(page, main_script_directory))

RaisePageNotFoundMPAV2(P) ==
    \E page \in P.strs :
        Construct("StreamlitPageNotFoundMPAV2Error", <<page>>,
                  StreamlitPageNotFoundMPAV2Error(page))

RaiseFragmentWidgetsNotAllowedOutside ==
    Construct("StreamlitFragmentWidgetsNotAllowedOutsideError", << >>,
              StreamlitFragmentWidgetsNotAllowedOutsideError)

RaiseInvalidFormCallback ==
    Construct("StreamlitInvalidFormCallbackError", << >>,
              StreamlitInvalidFormCallbackError)

RaiseWidgetValueAssignmentNotAllowed(P) ==
    \E key \in P.strs :
        Construct("StreamlitWidgetValueAssignmentNotAllowedError", <<key>>,
                  StreamlitWidgetValueAssignmentNotAllowedError(key))

RaiseSelectionCountExceedsMax(P) ==
    \E current_selections_count \in P.counts,
       max_selections_count \in P.counts :
        Construct("StreamlitSelectionCountExceedsMaxError", <<current_selections_count, max_selections_count>>,
                  StreamlitSelectionCountExceedsMaxError(current_selections_count, max_selections_count))

RaiseInvalidColumnSpec ==
    Construct("StreamlitInvalidColumnSpecError", << >>,
              StreamlitInvalidColumnSpecError)

RaiseSetPageConfigMustBeFirstCommand ==
    Construct("StreamlitSetPageConfigMustBeFirstCommandError", << >>,
              StreamlitSetPageConfigMustBeFirstCommandError)

RaiseInvalidLayout(P) ==
    \E layout \in P.strs :
        Construct("StreamlitInvalidLayoutError", <<layout>>,
                  StreamlitInvalidLayoutError(layout))

RaiseInvalidSidebarState(P) ==
    \E initial_sidebar_state \in P.strs :
        Construct("StreamlitInvalidSidebarStateError", <<initial_sidebar_state>>,
                  StreamlitInvalidSidebarStateError(initial_sidebar_state))

RaiseInvalidMenuItemKey(P) ==
    \E key \in P.strs :
        Construct("StreamlitInvalidMenuItemKeyError", <<key>>,
                  StreamlitInvalidMenuItemKeyError(key))

RaiseInvalidURL(P) ==
    \E url \in P.strs :
        Construct("StreamlitInvalidURLError", <<url>>,
                  StreamlitInvalidURLError(url))

\* The instance in flight reaches the end of its life.
Discard ==
    /\ exc # NoExc
    /\ exc' = NoExc
    /\ last' = NoCall
    /\ passed' = ""
    /\ caughtBy' = ""
    /\ UNCHANGED <<catalog, kept, seen>>

Next ==
    \/ RaiseLocalizable(WidePools)
    \/ RaiseNumberInputDifferentTypes(WidePools)
    \/ RaiseNumberInputInvalidMinValue(WidePools)
    \/ RaiseNumberInputInvalidMaxValue(WidePools)
    \/ RaiseJSNumberBounds(WidePools)
    \/ RaiseNumberInputInvalidFormat(WidePools)
    \/ RaiseMissingPageLabel
    \/ RaisePageNotFound(WidePools)
    \/ RaisePageNotFoundMPAV2(WidePools)
    \/ RaiseFragmentWidgetsNotAllowedOutside
    \/ RaiseInvalidFormCallback
    \/ RaiseWidgetValueAssignmentNotAllowed(WidePools)
    \/ RaiseSelectionCountExceedsMax(WidePools)
    \/ RaiseInvalidColumnSpec
    \/ RaiseSetPageConfigMustBeFirstCommand
    \/ RaiseInvalidLayout(WidePools)
    \/ RaiseInvalidSidebarState(WidePools)
    \/ RaiseInvalidMenuItemKey(WidePools)
    \/ RaiseInvalidURL(WidePools)
    \/ Discard

Spec == Init /\ [][Next]_vars

(***************************************************************************)
(* Raising the other classes, and catching                                 *)
(***************************************************************************)
\* One argument of each kind: enough to put every class in flight.
NarrowPools ==
    [types |-> {Int(5)}, bounds |-> {Int(5)}, counts |-> {Int(1)},
     strs |-> {Str(<<"x">>)}, dirs |-> {Str(<<"app">>)},
     classes |-> {"LocalizableStreamlitException"},
     templates |-> {<<"Plain text.">>}, kwargs |-> {{}}]

\* raise c(): a class with no constructor of its own, built with no argument.
Throw ==
    \E c \in PlainClasses :
        /\ exc = NoExc
        /\ exc' = [cls |-> c, message |-> << >>, exec_kwargs |-> {},
                   born |-> NoCall]
        /\ UNCHANGED <<catalog, last, passed, caughtBy, kept, seen>>

StreamlitModuleNotFoundError(module_name) ==
    Norm(<<"This Streamlit command requires module \"">>
           \o ToStr(module_name) \o <<"\" to be installed.">>)

RaiseModuleNotFound(P) ==
    \E module_name \in P.strs :
        /\ exc = NoExc
        /\ exc' = [cls |-> "StreamlitModuleNotFoundError",
                   message |-> StreamlitModuleNotFoundError(module_name),
                   exec_kwargs |-> {}, born |-> NoCall]
        /\ UNCHANGED <<catalog, last, passed, caughtBy, kept, seen>>

\* UncaughtAppException(exc) wraps the exception nothing has caught; its
\* text is the text of the exception it wraps.
WrapUncaught ==
    /\ exc # NoExc
    /\ caughtBy = ""
    /\ exc.cls # "UncaughtAppException"
    /\ exc' = [cls |-> "UncaughtAppException", message |-> exc.message,
               exec_kwargs |-> {}, born |-> NoCall]
    /\ passed' = ""
    /\ UNCHANGED <<catalog, last, caughtBy, kept, seen>>

\* The instance in flight meets "except h": it is caught, or propagates.
Handle ==
    \E h \in Classes :
        /\ exc # NoExc
        /\ caughtBy = ""
        /\ IF Catches(h, exc.cls)
           THEN caughtBy' = h /\ passed' = passed
           ELSE passed' = h /\ caughtBy' = caughtBy
        /\ UNCHANGED <<catalog, exc, last, kept, seen>>

NextCatch ==
    \/ Throw
    \/ RaiseModuleNotFound(NarrowPools)
    \/ WrapUncaught
    \/ Handle
    \/ RaiseLocalizable(NarrowPools)
    \/ RaiseNumberInputDifferentTypes(NarrowPools)
    \/ RaiseNumberInputInvalidMinValue(NarrowPools)
    \/ RaiseNumberInputInvalidMaxValue(NarrowPools)
    \/ RaiseJSNumberBounds(NarrowPools)
    \/ RaiseNumberInputInvalidFormat(NarrowPools)
    \/ RaiseMissingPageLabel
    \/ RaisePageNotFound(NarrowPools)
    \/ RaisePageNotFoundMPAV2(NarrowPools)
    \/ RaiseFragmentWidgetsNotAllowedOutside
    \/ RaiseInvalidFormCallback
    \/ RaiseWidgetValueAssignmentNotAllowed(NarrowPools)
    \/ RaiseSelectionCountExceedsMax(NarrowPools)
    \/ RaiseInvalidColumnSpec
    \/ RaiseSetPageConfigMustBeFirstCommand
    \/ RaiseInvalidLayout(NarrowPools)
    \/ RaiseInvalidSidebarState(NarrowPools)
    \/ RaiseInvalidMenuItemKey(NarrowPools)
    \/ RaiseInvalidURL(NarrowPools)
    \/ Discard

SpecCatch == InitWith({{}}) /\ [][NextCatch]_vars

(***************************************************************************)
(* Instances a caller keeps, the catalog being replaced, and reads         *)
(***************************************************************************)
\* At most this many instances are kept.
MaxKept == 3

\* At most this many instances are kept while the catalog is replaced.
MaxTracked == 1

KeepPools ==
    [types |-> {Int(5)}, bounds |-> {Int(5)}, counts |-> {Int(1)},
     strs |-> {Str(<<"x">>), Str(<<"y">>), Str(<<"{">>)},
     dirs |-> {Str(<<"app">>)},
     classes |-> {"LocalizableStreamlitException"},
     templates |-> {<<"Got ", "{", "value", "}", ".">>},
     kwargs |-> {{[k |-> "value", v |-> Int(0)]}}]

KeepCatalogs ==
    {{},
     {[msgid |-> NameOf("StreamlitJSNumberBoundsError"),
       msgstr |-> <<"Traduction.">>]},
     {[msgid |-> NameOf("StreamlitNumberInputInvalidMaxValueError"),
       msgstr |-> <<"{", "value", "}", " < ", "{", "min_value", "}">>]}}

\* The caller that caught the instance keeps it for later inspection.
Keep(cap) ==
    /\ exc # NoExc
    /\ exc.born.outcome = "ok"
    /\ Len(kept) < cap
    /\ kept' = Append(kept, exc)
    /\ exc' = NoExc
    /\ last' = NoCall
    /\ passed' = ""
    /\ caughtBy' = ""
    /\ UNCHANGED <<catalog, seen>>

\* A holder reads an instance's message and its exec_kwargs.
Read ==
    \E i \in 1..Len(kept) :
        /\ seen' = [of |-> i, message |-> MessageOf(kept[i], catalog),
                    exec_kwargs |-> exec_kwargs(kept[i]), at |-> catalog]
        /\ UNCHANGED <<catalog, exc, last, passed, caughtBy, kept>>

\* The localization subsystem installs another catalog.
Reload ==
    \E cat \in KeepCatalogs :
        /\ cat # catalog
        /\ catalog' = cat
        /\ UNCHANGED <<exc, last, passed, caughtBy, kept, seen>>

NextKeep ==
    \/ RaiseLocalizable(KeepPools)
    \/ RaiseJSNumberBounds(KeepPools)
    \/ RaiseNumberInputInvalidMaxValue(KeepPools)
    \/ Keep(MaxKept)
    \/ Read
    \/ Discard

SpecKeep == InitWith(KeepCatalogs) /\ [][NextKeep]_vars

NextReload ==
    \/ RaiseLocalizable(KeepPools)
    \/ RaiseJSNumberBounds(KeepPools)
    \/ RaiseNumberInputInvalidMaxValue(KeepPools)
    \/ Keep(MaxTracked)
    \/ Read
    \/ Reload
    \/ Discard

SpecReload == InitWith(KeepCatalogs) /\ [][NextReload]_vars

(***************************************************************************)
(* Properties                                                              *)
(***************************************************************************)
\* The constructor call in `last` was made and has ended.
Called == last.outcome # "none"

\* A localizable instance is in flight (its construction succeeded).
Constructed == exc # NoExc /\ exc.born.outcome = "ok"

\* The catalog's entries for the name of class cls that are a translation:
\* an entry that repeats the name is what an untranslated name gives.
TranslationsOf(cat, cls) ==
    {e \in cat : e.msgid = <<cls>> /\ e.msgstr # <<cls>>}

\* The template the specification prescribes for a call: the catalog's
\* translation for the concrete class, or else the caller's template.
Prescribed(c) ==
    IF TranslationsOf(c.cat0, c.cls) = {} THEN c.message
    ELSE (CHOOSE e \in TranslationsOf(c.cat0, c.cls) : TRUE).msgstr

\* The named placeholders a template references, read off left to right
\* up to its first malformed brace.
RECURSIVE FieldsFrom(_, _)
FieldsFrom(t, i) ==
    IF i > Len(t) THEN {}
    ELSE IF t[i] \notin {"{", "}"} THEN FieldsFrom(t, i + 1)
    ELSE IF i = Len(t) THEN {}
    ELSE IF t[i + 1] = t[i] THEN FieldsFrom(t, i + 2)
    ELSE IF t[i] = "}" THEN {}
    ELSE IF i + 2 <= Len(t) /\ t[i + 1] \notin {"{", "}"} /\ t[i + 2] = "}"
         THEN {t[i + 1]} \cup FieldsFrom(t, i + 3)
    ELSE {}

NamedFields(t) == {f \in FieldsFrom(t, 1) : ~IsIndex(<<f>>)}

NoBraces(t) == \A i \in 1..Len(t) : t[i] \notin {"{", "}"}

\* A message as it reads once Markdown has rendered its code spans.
Plain(m) == Norm([i \in 1..Len(m) |-> IF m[i] = BT THEN "" ELSE m[i]])

\* C1: for every localizable class, template and keyword arguments, the
\* catalog is consulted under the name of the instance's concrete class: with
\* no translation under that name the message is the caller's template with
\* the keyword arguments substituted, with a translation it is the
\* translation with the same arguments substituted; entries under other
\* names (the base class's included) change nothing.
C1_LookupByConcreteName ==
    Called =>
        LET r == format(Prescribed(last), last.kwargs)
        IN /\ last.outcome = r.outcome
           /\ r.outcome = "ok" => exc.cls = last.cls /\ exc.message = r.out

C1_Witness ==
    /\ Constructed
    /\ exc.cls = "StreamlitNumberInputInvalidMaxValueError"
    /\ exc.born.args = <<Int(1), Int(5), Int(10)>>
    /\ TranslationsOf(catalog, exc.cls) # {}
    /\ exc.message = <<"1 < 5">>

\* C2: the message of StreamlitNumberInputDifferentTypesError holds the type
\* line of each of value, min_value, max_value and step exactly when that
\* argument is not None, the number zero included.
HasTypeLine(m, name, v) ==
    \E j \in 1..Len(m) :
        /\ j + 4 <= Len(m)
        /\ SubSeq(m, j, j + 4)
             = <<NL, BT, name, BT, " has " \o TypeName(v) \o " type.">>

ArgNames == <<"value", "min_value", "max_value", "step">>

C2_TypeLineIffProvided ==
    (Constructed /\ exc.cls = "StreamlitNumberInputDifferentTypesError") =>
        \A i \in 1..4 :
            HasTypeLine(exc.message, ArgNames[i], exc.born.args[i])
              <=> exc.born.args[i] # None

\* C3: the exec_kwargs read back from a constructed instance are the keyword
\* arguments its constructor call passed, on the translation path as on the
\* fallback path.
C3_ExecKwargsAsPassed ==
    Constructed => exec_kwargs(exc) = exc.born.kwargs

C3_Witness ==
    /\ Constructed
    /\ TranslationsOf(catalog, exc.cls) # {}
    /\ Cardinality(exec_kwargs(exc)) = 2

\* C4: when the chosen template references a named placeholder that the
\* keyword arguments do not supply, the construction ends in an error: what
\* is in flight is that error and no instance, with no message rendered and
\* no substitution arguments recorded.
C4_MissingPlaceholderFails ==
    (Called /\ \E f \in NamedFields(Prescribed(last)) :
                  ~HasKey(last.kwargs, f)) =>
        /\ last.outcome \in {"KeyError", "ValueError", "IndexError"}
        /\ exc.cls = last.outcome
        /\ exc.message = << >>
        /\ exec_kwargs(exc) = {}

C4_Witness ==
    /\ Called
    /\ last.cls = "StreamlitInvalidLayoutError"
    /\ TranslationsOf(catalog, last.cls) # {}
    /\ "min_value" \in NamedFields(Prescribed(last))
    /\ last.outcome = "KeyError"
    /\ exc.cls = "KeyError"

\* C5: the message of every constructed localizable instance is non-empty,
\* whatever the catalog, the class and the constructor arguments; with no
\* translation the caller's template is the template used, unaltered: the
\* message is that template with the keyword arguments substituted, which
\* is the template itself when it has no braces.
C5_NeverEmptyVerbatim ==
    Constructed =>
        /\ exc.message # << >>
        /\ TranslationsOf(exc.born.cat0, exc.cls) = {} =>
              /\ exc.message = format(exc.born.message, exc.born.kwargs).out
              /\ NoBraces(exc.born.message) => exc.message = exc.born.message

\* C7: with no translation, the number-input leaf whose constructor takes
\* value, min_value and max_value says that the value v is less than the
\* min_value m, whatever max_value is; for 1, 5, 10 it reads "The value 1 is
\* less than the min_value 5." (value and min_value are Markdown code spans).
C7_ValueBelowMinimum ==
    (Called /\ last.cls = "StreamlitNumberInputInvalidMaxValueError"
            /\ TranslationsOf(last.cat0, last.cls) = {}) =>
        LET v == ToStr(last.args[1])[1]
            m == ToStr(last.args[2])[1]
        IN /\ Constructed
           /\ exc.message = <<"The ", BT, "value", BT,
                               " " \o v \o " is less than the ", BT,
                               "min_value", BT, " " \o m \o ".">>
           /\ Plain(exc.message)
                = <<"The value " \o v \o " is less than the min_value "
                      \o m \o ".">>

C7_Witness ==
    /\ Constructed
    /\ exc.cls = "StreamlitNumberInputInvalidMaxValueError"
    /\ exc.born.args = <<Int(1), Int(5), Int(10)>>
    /\ Plain(exc.message) = <<"The value 1 is less than the min_value 5.">>

\* C10: each leaf that interpolates a caller's string into its template is
\* constructed successfully for every string, and its message is the
\* interpolated text unaltered.
InterpolatingLeaves ==
    {"StreamlitNumberInputInvalidFormatError", "StreamlitPageNotFoundError",
     "StreamlitPageNotFoundMPAV2Error",
     "StreamlitWidgetValueAssignmentNotAllowedError",
     "StreamlitInvalidLayoutError", "StreamlitInvalidSidebarStateError",
     "StreamlitInvalidMenuItemKeyError", "StreamlitInvalidURLError",
     "StreamlitJSNumberBoundsError"}

C10_InterpolatedTextVerbatim ==
    (Called /\ last.cls \in InterpolatingLeaves
            /\ TranslationsOf(last.cat0, last.cls) = {}) =>
        /\ last.outcome = "ok"
        /\ exc.message = last.message

\* C6: a handler for a base class catches every class derived from it: a
\* localizable leaf never propagates through a handler for
\* LocalizableStreamlitException, StreamlitAPIException,
\* MarkdownFormattedException or Error, the other API classes never through
\* one for the last three, an internal class never through one for Error;
\* FragmentHandledException is caught by no handler for Error or a
\* subclass of it.
LocalizableBaseClasses ==
    {"LocalizableStreamlitException", "StreamlitAPIException",
     "MarkdownFormattedException", "Error"}

ApiClasses ==
    {"DuplicateWidgetID", "UnserializableSessionStateError",
     "StreamlitAPIWarning", "StreamlitModuleNotFoundError"}

InternalClasses ==
    {"NoSessionContext", "NoStaticFiles", "FragmentStorageKeyError",
     "CustomComponentError", "DeprecationError", "UncaughtAppException"}

Taxonomy == Classes \ (BuiltinClasses \cup {"FragmentHandledException"})

C6_CatchByBase ==
    exc # NoExc =>
        /\ exc.cls \in LocalizableLeaves => passed \notin LocalizableBaseClasses
        /\ exc.cls \in ApiClasses
             => passed \notin {"StreamlitAPIException",
                               "MarkdownFormattedException", "Error"}
        /\ exc.cls \in InternalClasses => passed # "Error"
        /\ exc.cls = "FragmentHandledException" => caughtBy \notin Taxonomy

C6_Witness ==
    /\ exc.cls = "StreamlitInvalidURLError"
    /\ passed = "FragmentHandledException"
    /\ caughtBy = "MarkdownFormattedException"

\* C8: construction leaves the catalog as it found it, and two kept instances
\* of the same class built from the same constructor arguments have the same
\* message and the same exec_kwargs, whatever was constructed in between.
SameCall(a, b) ==
    /\ a.cls = b.cls
    /\ a.args = b.args
    /\ a.message = b.message
    /\ a.kwargs = b.kwargs

C8_Deterministic ==
    /\ Called => last.cat0 = catalog
    /\ \A i \in 1..Len(kept) : kept[i].born.cat0 = catalog
    /\ \A i, j \in 1..Len(kept) :
           SameCall(kept[i].born, kept[j].born) =>
               /\ kept[i].message = kept[j].message
               /\ exec_kwargs(kept[i]) = exec_kwargs(kept[j])

C8_Witness ==
    /\ Len(kept) = 3
    /\ SameCall(kept[1].born, kept[3].born)
    /\ kept[2].cls = kept[1].cls
    /\ ~SameCall(kept[1].born, kept[2].born)
    /\ catalog = {}

\* C9: whatever the catalog becomes, whatever is constructed and whatever is
\* read after an instance was constructed, its message and its exec_kwargs
\* are, and read as, what the catalog and the keyword arguments of the
\* moment of its construction gave.
C9_ResolvedOnce ==
    \A i \in 1..Len(kept) :
        LET b == kept[i].born
            r == format(Prescribed(b), b.kwargs)
        IN /\ MessageOf(kept[i], catalog) = r.out
           /\ exec_kwargs(kept[i]) = b.kwargs
           /\ seen.of = i => seen.message = r.out /\ seen.exec_kwargs = b.kwargs

C9_Witness ==
    /\ Len(kept) = 1
    /\ TranslationsOf(kept[1].born.cat0, kept[1].cls) = {}
    /\ TranslationsOf(catalog, kept[1].cls) # {}
    /\ seen.of = 1
    /\ seen.at = catalog
    /\ Constructed
    /\ exc.cls = kept[1].cls
    /\ exc.message # kept[1].message

====
